---- MODULE Spec2Model ----
(***************************************************************************)
(* The durable-step workflow executor of cli/effect/lib/utils:             *)
(* workflow.ts (WorkflowState, Workflow.make/step/retry/timeout) and       *)
(* backoff.ts (calculateDelay).                                            *)
(*                                                                         *)
(* Fibers call handle.run(input); a run owns one Ref<WorkflowState>; the   *)
(* definition issues step(name, effect) calls; an effect is an opaque      *)
(* operation, optionally wrapped as timeout(op), retry(op) or              *)
(* retry(timeout(op)); a definition may also fork a fiber that issues      *)
(* steps on the same context.  Durations and the clock are in              *)
(* microseconds, so that every delay the code computes is an integer;      *)
(* Date.now() is the clock in whole milliseconds.                          *)
(***************************************************************************)
EXTENDS Integers, Sequences, FiniteSets, TLC

\* ---------------------------------------------------------------- bounds
\* Ref<WorkflowState> cells allocated in one behaviour (runs started).
MaxRuns == 2
\* step(...) calls issued in one behaviour, over all runs.
MaxCalls == 2
\* Largest maxAttempts option tried, and the length of an operation's plan.
MaxTries == 3
\* The clock advances in 1 ms ticks up to this many ms, then only jumps to
\* the next pending wake-up.
MaxFineMs == 3

\* Largest retry index calculateDelay is called with on its own.
MaxIndex == 4

\* ------------------------------------------------------- program constants
\* Duration.seconds(1): the delay used when options.delay is absent.
DefaultDelayMs == 1000
\* calculateBaseDelay: config.factor ?? 2
DefaultFactor == 2
\* applyJitter: jitterConfig.factor ?? 3
DefaultJitterFactor == 3

\* ------------------------------------------------------------ value space
Fibers == {"f1", "f2"}
StepNames == {"a", "b"}
Handles == {"processOrder", "other"}
\* The handles a fiber calls run on: f1 keeps to one handle, f2 uses both,
\* so that concurrent runs are of the same handle and of different ones.
HandlesOf(p) == IF p = "f1" THEN {"processOrder"} ELSE Handles

Undefined == "undefined"
Null == "null"
\* What an operation can succeed with.
Values == {Undefined, Null, "v1"}

\* Options are records; an optional key that is not given is not in the
\* record's DOMAIN.
Has(rec, key) == key \in DOMAIN rec

\* Duration.DurationInput: a number of milliseconds or a string "<n> millis".
NumberInput(n) == [kind |-> "number", n |-> n]
StringInput(n) == [kind |-> "string", n |-> n]

\* JavaScript truthiness of an optional DurationInput (undefined, 0 and ""
\* are falsy; a non-empty string and a positive number are truthy).
Truthy(x) == ~(x.kind = "number" /\ x.n = 0)

\* Duration.millis / Duration.decode: a duration in microseconds; negative
\* inputs decode to zero.
millis(ms) == IF ms <= 0 THEN 0 ELSE ms * 1000
decode(input) == millis(input.n)
\* Duration.toMillis, for durations that are whole milliseconds.
toMillis(d) == d \div 1000
\* Duration.min
DurationMin(a, b) == IF a <= b THEN a ELSE b

RECURSIVE Pow(_, _)
\* Math.pow on non-negative integers.
Pow(b, e) == IF e <= 0 THEN 1 ELSE b * Pow(b, e - 1)

Range(s) == {s[i] : i \in 1..Len(s)}

\* ------------------------------------------------------------- backoff.ts
\* Math.random() returns rn / RandDen for some rn in 0..RandDen-1.
RandDen == 4
Randoms == 0..(RandDen - 1)

BackoffTags == {"Exponential", "Linear", "Constant"}

isBackoffConfig(value) == Has(value, "tag") /\ value.tag \in BackoffTags

\* A variant of calculateBaseDelay that counts attempts from 1, so that the
\* first retry already waits base * factor.
calculateBaseDelayFromOne(config, attempt) ==
  CASE config.tag = "Exponential" ->
         LET factor == IF Has(config, "factor") THEN config.factor ELSE DefaultFactor
             baseMs == toMillis(decode(config.base))
         IN  millis(baseMs * Pow(factor, attempt + 1))
    [] config.tag = "Linear" ->
         LET initialMs == toMillis(decode(config.initial))
             incrementMs == toMillis(decode(config.increment))
         IN  millis(initialMs + (attempt + 1) * incrementMs)
    [] config.tag = "Constant" -> decode(config.duration)

calculateBaseDelay(config, attempt) ==
  CASE config.tag = "Exponential" ->
         LET factor == IF Has(config, "factor") THEN config.factor ELSE DefaultFactor
             baseMs == toMillis(decode(config.base))
         IN  millis(baseMs * Pow(factor, attempt))
    [] config.tag = "Linear" ->
         LET initialMs == toMillis(decode(config.initial))
             incrementMs == toMillis(decode(config.increment))
         IN  millis(initialMs + attempt * incrementMs)
    [] config.tag = "Constant" -> decode(config.duration)

applyMax(config, delay) ==
  IF Has(config, "max")
  THEN DurationMin(delay, decode(config.max))
  ELSE delay

\* The jitter of a config whose jitter is not falsy, as a JitterConfig.
JitterOf(config) ==
  IF Has(config.jitter, "bool") THEN [type |-> "full"] ELSE config.jitter
\* Its factor, for the decorrelated type.
JitterFactorOf(config) ==
  IF Has(JitterOf(config), "factor") THEN JitterOf(config).factor
  ELSE DefaultJitterFactor

\* A variant of applyJitter whose equal jitter spreads over the whole delay.
applyJitterEqualSpreads(config, delay, rn) ==
  IF ~Has(config, "jitter") \/ config.jitter = [bool |-> FALSE]
  THEN delay
  ELSE CASE JitterOf(config).type = "full" -> (rn * delay) \div RandDen
         [] JitterOf(config).type = "equal" -> (rn * delay) \div RandDen
         [] JitterOf(config).type = "decorrelated" ->
              (rn * delay * JitterFactorOf(config)) \div RandDen

\* A variant of applyJitter whose decorrelated jitter leaves the factor out.
applyJitterNoFactor(config, delay, rn) ==
  IF ~Has(config, "jitter") \/ config.jitter = [bool |-> FALSE]
  THEN delay
  ELSE CASE JitterOf(config).type = "full" -> (rn * delay) \div RandDen
         [] JitterOf(config).type = "equal" ->
              (delay \div 2) + (rn * (delay \div 2)) \div RandDen
         [] JitterOf(config).type = "decorrelated" -> (rn * delay) \div RandDen

\* A variant of applyJitter whose full jitter is spread around zero.
applyJitterAroundZero(config, delay, rn) ==
  IF ~Has(config, "jitter") \/ config.jitter = [bool |-> FALSE]
  THEN delay
  ELSE CASE JitterOf(config).type = "full" ->
              (rn * delay) \div RandDen - (delay \div 2)
         [] JitterOf(config).type = "equal" ->
              (delay \div 2) + (rn * (delay \div 2)) \div RandDen
         [] JitterOf(config).type = "decorrelated" ->
              (rn * delay * JitterFactorOf(config)) \div RandDen

\* A variant of applyJitter that takes only an absent jitter for no jitter,
\* so that `jitter: false` is full jitter.
applyJitterUnlessAbsent(config, delay, rn) ==
  IF ~Has(config, "jitter")
  THEN delay
  ELSE CASE JitterOf(config).type = "full" -> (rn * delay) \div RandDen
         [] JitterOf(config).type = "equal" ->
              (delay \div 2) + (rn * (delay \div 2)) \div RandDen
         [] JitterOf(config).type = "decorrelated" ->
              (rn * delay * JitterFactorOf(config)) \div RandDen

\* jitter is absent, [bool |-> b] or a JitterConfig [type |-> t (, factor |-> f)];
\* delay is in microseconds and rn / RandDen is the value random() returned.
\* Duration.millis of the product is the product itself, in microseconds.
applyJitter(config, delay, rn) ==
  IF ~Has(config, "jitter") \/ config.jitter = [bool |-> FALSE]
  THEN delay
  ELSE LET jitter == config.jitter
           jitterConfig == IF Has(jitter, "bool") THEN [type |-> "full"] ELSE jitter
       IN  CASE jitterConfig.type = "full" -> (rn * delay) \div RandDen
             [] jitterConfig.type = "equal" ->
                  (delay \div 2) + (rn * (delay \div 2)) \div RandDen
             [] jitterConfig.type = "decorrelated" ->
                  LET factor == IF Has(jitterConfig, "factor")
                                THEN jitterConfig.factor ELSE DefaultJitterFactor
                  IN  (rn * delay * factor) \div RandDen

\* A variant of calculateDelay that applies the cap after the jitter.
calculateDelayCapsLast(config, attempt, rn) ==
  applyMax(config, applyJitter(config, calculateBaseDelay(config, attempt), rn))

calculateDelay(config, attempt, rn) ==
  LET baseDelay == calculateBaseDelay(config, attempt)
      cappedDelay == applyMax(config, baseDelay)
  IN  applyJitter(config, cappedDelay, rn)


\* ------------------------------------------------- workflow.ts: the state
\* A Map with no entries.
EmptyMap == [n \in {} |-> Undefined]

\* The WorkflowState createWorkflowContext puts in a new Ref.
EmptyWorkflowState ==
  [completedSteps |-> <<>>, stepResults |-> EmptyMap, stepAttempts |-> EmptyMap]

\* WorkflowContextService.hasCompleted: completedSteps.includes(stepName)
hasCompleted(s, stepName) == stepName \in Range(s.completedSteps)

\* WorkflowContextService.markCompleted
markCompleted(s, stepName) ==
  [s EXCEPT !.completedSteps = Append(s.completedSteps, stepName)]

\* WorkflowContextService.getStepResult: Map.get gives undefined for no entry.
getStepResult(s, stepName) ==
  IF stepName \in DOMAIN s.stepResults THEN s.stepResults[stepName] ELSE Undefined

\* A variant of setStepResult that stores defined results only.
setStepResultDefined(s, stepName, result) ==
  IF result = Undefined THEN s
  ELSE [s EXCEPT !.stepResults =
          [n \in (DOMAIN s.stepResults) \cup {stepName} |->
             IF n = stepName THEN result ELSE s.stepResults[n]]]

\* WorkflowContextService.setStepResult: Map.set
setStepResult(s, stepName, result) ==
  [s EXCEPT !.stepResults =
     [n \in (DOMAIN s.stepResults) \cup {stepName} |->
        IF n = stepName THEN result ELSE s.stepResults[n]]]

\* Either / Exit of an effect.
Right(v) == [tag |-> "Right", right |-> v]
Left(e) == [tag |-> "Left", left |-> e]

\* The tagged errors.
StepError(stepName, cause, attempt) ==
  [tag |-> "StepError", stepName |-> stepName, cause |-> cause, attempt |-> attempt]
StepTimeoutError(stepName, timeoutMs) ==
  [tag |-> "StepTimeoutError", stepName |-> stepName, timeoutMs |-> timeoutMs]
RetryExhaustedError(stepName, attempts, lastError) ==
  [tag |-> "RetryExhaustedError", stepName |-> stepName, attempts |-> attempts,
   lastError |-> lastError]
\* `let lastError: unknown = null`
NullError == [tag |-> "null"]
\* The error the operation itself fails with on its n-th invocation.
OpError(n) == [tag |-> "Error", n |-> n]

\* ------------------------------------------------------------ the effects
\* An operation is opaque: its plan says on which invocation it succeeds
\* (0: never) and on which it never completes (0: none); on every other
\* invocation it fails with OpError(n).
\* What it would do after succeeding is never seen, so a plan hangs only
\* before it succeeds.
Plans ==
  {pl \in [succAt : 0..MaxTries, hangAt : 0..MaxTries] :
     pl.hangAt = 0 \/ pl.succAt = 0 \/ pl.hangAt < pl.succAt}

\* The operation never completes on its n-th invocation: its plan says so
\* for that invocation, or for every invocation (never).
Hangs(plan, n) == plan.hangAt = n \/ Has(plan, "never")
\* Effect.never: an operation that completes on no invocation.
never ==
  [value |-> Undefined, plan |-> [succAt |-> 0, hangAt |-> 0, never |-> TRUE]]

\* Effect.succeed(v) / Effect.fail(e): an unwrapped operation.
succeed(v) == [value |-> v, plan |-> [succAt |-> 1, hangAt |-> 0]]
fail == [value |-> Undefined, plan |-> [succAt |-> 0, hangAt |-> 0]]
PlainEffects == {succeed(v) : v \in Values} \cup {fail}

\* ------------------------------------------------------------------ state
VARIABLES
  now,      \* the clock, in microseconds
  refs,     \* the Ref<WorkflowState> cells made so far (Ref.make appends)
  pc,       \* where each fiber is
  ctx,      \* the WorkflowContext service provided to the fiber's run
  call,     \* the step call the fiber is in: [name, effect]
  loc,      \* the locals of step / retry / timeout of that call
  ret,      \* what the last step call gave back to the definition
  runOut,   \* what the fiber's last handle.run(input) ended with
  hist,     \* history of the fiber's run, for stating properties
  calls,    \* step calls issued so far
  calc,     \* the calls of calculateDelay made on their own (CalculateDelay)
  console   \* the lines step has logged in the fiber's latest step call

vars == <<now, refs, pc, ctx, call, loc, ret, runOut, hist, calls, calc, console>>

\* Date.now()
DateNow == now \div 1000

NoCtx == [stateRef |-> 0]
NoCall == [name |-> "none"]
NoRet == [kind |-> "none"]
NoLoc == [invocations |-> 0]
\* No call of calculateDelay outside retry.
NoCalc == [config |-> "none"]
NoHist ==
  [runs |-> 0, prevRef |-> 0, done |-> EmptyMap, failed |-> {},
   snap |-> EmptyWorkflowState, mine |-> EmptyWorkflowState]

\* The WorkflowState of the run the fiber is in.
State(p) == refs[ctx[p].stateRef]

\* No run has been started.
NoRuns ==
  /\ now = 0
  /\ refs = <<>>
  /\ pc = [p \in Fibers |-> "idle"]
  /\ ctx = [p \in Fibers |-> NoCtx]
  /\ call = [p \in Fibers |-> NoCall]
  /\ loc = [p \in Fibers |-> NoLoc]
  /\ ret = [p \in Fibers |-> NoRet]
  /\ runOut = [p \in Fibers |-> NoRet]
  /\ hist = [p \in Fibers |-> NoHist]
  /\ calls = 0
  /\ console = [p \in Fibers |-> <<>>]

Init == NoRuns /\ calc = NoCalc

\* ---------------------------------------------------------- Workflow.make
\* A variant of RefMake with the Ref made once, at module scope.
RefMakeOnce(cells) == 1

\* Ref.make in createWorkflowContext: a new cell, its index the reference.
RefMake(cells) == Len(cells) + 1

\* A variant of createWorkflowContext that keeps the state of the workflow
\* run last started, as a cached layer would.
createWorkflowContextCached(cells, workflowId, workflowName) ==
  [workflowId |-> workflowId, workflowName |-> workflowName,
   stateRef |-> IF cells = <<>> THEN 1 ELSE Len(cells)]

\* createWorkflowContext(workflowId, workflowName): the service of a new Ref.
createWorkflowContext(cells, workflowId, workflowName) ==
  [workflowId |-> workflowId, workflowName |-> workflowName,
   stateRef |-> RefMake(cells)]

\* Console.log(`  [${name}] ${line}`) in step: the lines logged, one more.
ConsoleLog(lines, name, line) == Append(lines, [name |-> name, line |-> line])

\* handle.run(input): make the context and start definition(input).
Run(p, name) ==
  /\ pc[p] = "idle"
  /\ Len(refs) < MaxRuns
  /\ LET service == createWorkflowContext(refs, <<name, DateNow>>, name)
     IN  /\ ctx' = [ctx EXCEPT ![p] = service]
         /\ refs' = Append(refs, EmptyWorkflowState)
  /\ pc' = [pc EXCEPT ![p] = "defn"]
  /\ call' = [call EXCEPT ![p] = NoCall]
  /\ loc' = [loc EXCEPT ![p] = NoLoc]
  /\ ret' = [ret EXCEPT ![p] = NoRet]
  /\ runOut' = [runOut EXCEPT ![p] = NoRet]
  /\ hist' = [hist EXCEPT ![p] =
               [NoHist EXCEPT !.runs = hist[p].runs + 1,
                              !.prevRef = hist[p].prevRef]]
  /\ UNCHANGED <<now, calls, calc>>
  /\ console' = [console EXCEPT ![p] = <<>>]


\* ---------------------------------------------------------- Workflow.step
\* The definition calls step(name, effect).
StepCall(p, name, effect) ==
  /\ pc[p] = "defn"
  /\ calls < MaxCalls
  /\ calls' = calls + 1
  /\ pc' = [pc EXCEPT ![p] = "hasCompleted"]
  /\ call' = [call EXCEPT ![p] = [name |-> name, effect |-> effect]]
  /\ loc' = [loc EXCEPT ![p] = NoLoc]
  /\ hist' = [hist EXCEPT ![p].snap = State(p)]
  /\ UNCHANGED <<now, refs, ctx, ret, runOut, calc>>
  /\ console' = [console EXCEPT ![p] = <<>>]

\* const isCompleted = yield* ctx.hasCompleted(name)
StepHasCompleted(p) ==
  /\ pc[p] = "hasCompleted"
  /\ pc' = [pc EXCEPT ![p] =
             IF hasCompleted(State(p), call[p].name) THEN "getStepResult" ELSE "execute"]
  /\ UNCHANGED <<now, refs, ctx, call, loc, ret, runOut, hist, calls, calc, console>>

\* A variant of isCached that tests truthiness, `if (cached)`.
isCachedTruthy(cached) == cached # Undefined /\ cached # Null

\* A variant of isCached that takes whatever the Map holds for a completed
\* name, undefined too, as the cached result.
isCachedWhenCompleted(cached) == cached \in Values

\* `if (cached !== undefined)`
isCached(cached) == cached # Undefined

\* const cached = yield* ctx.getStepResult(name); if defined, return it.
StepGetStepResult(p) ==
  /\ pc[p] = "getStepResult"
  /\ LET cached == getStepResult(State(p), call[p].name)
     IN  IF isCached(cached)
         THEN /\ pc' = [pc EXCEPT ![p] = "defn"]
              /\ ret' = [ret EXCEPT ![p] =
                           [kind |-> "cached", name |-> call[p].name, out |-> Right(cached)]]
              /\ call' = [call EXCEPT ![p] = NoCall]
         ELSE /\ pc' = [pc EXCEPT ![p] = "execute"]
              /\ UNCHANGED <<ret, call>>
  /\ UNCHANGED <<now, refs, ctx, loc, runOut, hist, calls, calc>>
  /\ console' = [console EXCEPT ![p] =
                  IF isCached(getStepResult(State(p), call[p].name))
                  THEN ConsoleLog(@, call[p].name, "cached") ELSE @]

\* Record l with field k set to v, whether or not l has the field.
Put(l, k, v) == [f \in (DOMAIN l) \cup {k} |-> IF f = k THEN v ELSE l[f]]

\* `[name] executing...`, then the effect starts; here it is the operation
\* itself or timeout(operation).
StepExecute(p) ==
  /\ pc[p] = "execute"
  /\ ~Has(call[p].effect, "retry")
  /\ pc' = [pc EXCEPT ![p] = "attempt"]
  /\ loc' = [loc EXCEPT ![p] = [invocations |-> 1, started |-> now]]
  /\ UNCHANGED <<now, refs, ctx, call, ret, runOut, hist, calls, calc>>
  /\ console' = [console EXCEPT ![p] = ConsoleLog(@, call[p].name, "executing...")]

\* Where the outcome of an invocation goes: to the retry loop or to step.
AfterAttempt(p) == IF Has(call[p].effect, "retry") THEN "either" ELSE "stepResult"

\* The operation completes with its value.
OpSucceed(p) ==
  /\ pc[p] = "attempt"
  /\ call[p].effect.plan.succAt = loc[p].invocations
  /\ pc' = [pc EXCEPT ![p] = AfterAttempt(p)]
  /\ loc' = [loc EXCEPT ![p] = Put(@, "result", Right(call[p].effect.value))]
  /\ UNCHANGED <<now, refs, ctx, call, ret, runOut, hist, calls, calc, console>>

\* The operation completes with its error.
OpFail(p) ==
  /\ pc[p] = "attempt"
  /\ call[p].effect.plan.succAt # loc[p].invocations
  /\ ~Hangs(call[p].effect.plan, loc[p].invocations)
  /\ pc' = [pc EXCEPT ![p] = AfterAttempt(p)]
  /\ loc' = [loc EXCEPT ![p] =
               Put(Put(@, "result", Left(OpError(loc[p].invocations))),
                   "produced", OpError(loc[p].invocations))]
  /\ UNCHANGED <<now, refs, ctx, call, ret, runOut, hist, calls, calc, console>>

\* Effect.mapError((e) => new StepError({stepName: name, cause: e, attempt: 0}))
mapError(name, e) == StepError(name, e, 0)

\* A variant of StepFail that marks the step completed although it failed.
StepFailMarks(p) ==
  /\ pc[p] = "stepResult"
  /\ loc[p].result.tag = "Left"
  /\ refs' = [refs EXCEPT ![ctx[p].stateRef] = markCompleted(@, call[p].name)]
  /\ pc' = [pc EXCEPT ![p] = "defn"]
  /\ ret' = [ret EXCEPT ![p] =
               [kind |-> "failed", name |-> call[p].name,
                invocations |-> loc[p].invocations,
                out |-> Left(StepError(call[p].name, loc[p].result.left, 0))]]
  /\ hist' = [hist EXCEPT ![p].failed = @ \cup {call[p].name}]
  /\ call' = [call EXCEPT ![p] = NoCall]
  /\ loc' = [loc EXCEPT ![p] = NoLoc]
  /\ UNCHANGED <<now, ctx, runOut, calls, calc, console>>

\* A variant of StepFail that stores null as the result of the failed step.
StepFailCaches(p) ==
  /\ pc[p] = "stepResult"
  /\ loc[p].result.tag = "Left"
  /\ refs' = [refs EXCEPT ![ctx[p].stateRef] = setStepResult(@, call[p].name, Null)]
  /\ pc' = [pc EXCEPT ![p] = "defn"]
  /\ ret' = [ret EXCEPT ![p] =
               [kind |-> "failed", name |-> call[p].name,
                invocations |-> loc[p].invocations,
                out |-> Left(StepError(call[p].name, loc[p].result.left, 0))]]
  /\ hist' = [hist EXCEPT ![p].failed = @ \cup {call[p].name}]
  /\ call' = [call EXCEPT ![p] = NoCall]
  /\ loc' = [loc EXCEPT ![p] = NoLoc]
  /\ UNCHANGED <<now, ctx, runOut, calls, calc, console>>

\* The effect failed: step fails with the mapped error (invocations keeps
\* how many times the operation had been invoked).
StepFail(p) ==
  /\ pc[p] = "stepResult"
  /\ loc[p].result.tag = "Left"
  /\ pc' = [pc EXCEPT ![p] = "defn"]
  /\ ret' = [ret EXCEPT ![p] =
               [kind |-> "failed", name |-> call[p].name,
                invocations |-> loc[p].invocations,
                out |-> Left(mapError(call[p].name, loc[p].result.left))]]
  /\ hist' = [hist EXCEPT ![p].failed = @ \cup {call[p].name}]
  /\ call' = [call EXCEPT ![p] = NoCall]
  /\ loc' = [loc EXCEPT ![p] = NoLoc]
  /\ UNCHANGED <<now, refs, ctx, runOut, calls, calc, console>>

\* yield* ctx.setStepResult(name, result)
StepSetStepResult(p) ==
  /\ pc[p] = "stepResult"
  /\ loc[p].result.tag = "Right"
  /\ refs' = [refs EXCEPT ![ctx[p].stateRef] =
                setStepResult(@, call[p].name, loc[p].result.right)]
  /\ pc' = [pc EXCEPT ![p] = "markCompleted"]
  /\ hist' = [hist EXCEPT ![p].mine =
                setStepResult(@, call[p].name, loc[p].result.right)]
  /\ UNCHANGED <<now, ctx, call, loc, ret, runOut, calls, calc, console>>

\* A variant of StepMarkCompleted that writes back the state step read when
\* it was called, with the updates of this step.
StepMarkCompletedStale(p) ==
  /\ pc[p] = "markCompleted"
  /\ refs' = [refs EXCEPT ![ctx[p].stateRef] =
                markCompleted(setStepResult(hist[p].snap, call[p].name,
                                            loc[p].result.right),
                              call[p].name)]
  /\ pc' = [pc EXCEPT ![p] = "defn"]
  /\ ret' = [ret EXCEPT ![p] =
               [kind |-> "executed", name |-> call[p].name, out |-> loc[p].result]]
  /\ hist' = [hist EXCEPT
                ![p].mine = markCompleted(@, call[p].name),
                ![p].failed = @ \ {call[p].name},
                ![p].done = IF loc[p].result.right = Undefined THEN @
                            ELSE [n \in (DOMAIN @) \cup {call[p].name} |->
                                    IF n = call[p].name THEN loc[p].result.right ELSE @[n]]]
  /\ call' = [call EXCEPT ![p] = NoCall]
  /\ loc' = [loc EXCEPT ![p] = NoLoc]
  /\ UNCHANGED <<now, ctx, runOut, calls, calc>>
  /\ console' = [console EXCEPT ![p] = ConsoleLog(@, call[p].name, "completed")]

\* yield* ctx.markCompleted(name); `[name] completed`; return result
StepMarkCompleted(p) ==
  /\ pc[p] = "markCompleted"
  /\ refs' = [refs EXCEPT ![ctx[p].stateRef] = markCompleted(@, call[p].name)]
  /\ pc' = [pc EXCEPT ![p] = "defn"]
  /\ ret' = [ret EXCEPT ![p] =
               [kind |-> "executed", name |-> call[p].name, out |-> loc[p].result]]
  /\ hist' = [hist EXCEPT
                ![p].mine = markCompleted(@, call[p].name),
                ![p].failed = @ \ {call[p].name},
                ![p].done = IF loc[p].result.right = Undefined THEN @
                            ELSE [n \in (DOMAIN @) \cup {call[p].name} |->
                                    IF n = call[p].name THEN loc[p].result.right ELSE @[n]]]
  /\ call' = [call EXCEPT ![p] = NoCall]
  /\ loc' = [loc EXCEPT ![p] = NoLoc]
  /\ UNCHANGED <<now, ctx, runOut, calls, calc>>
  /\ console' = [console EXCEPT ![p] = ConsoleLog(@, call[p].name, "completed")]

\* A variant of provide that wraps a failure of the definition in an error
\* of the workflow.
provideWrapped(exit) ==
  IF exit.tag = "Left" THEN Left(StepError("workflow", exit.left, 0)) ELSE exit

\* definition(input).pipe(Effect.provide(layer)), returned with `yield*`:
\* the exit of run is the exit of the definition.
provide(exit) == exit

\* definition(input) ends: it returns a value, or it fails with the error
\* of the step call that just failed; run passes either on (defn keeps what
\* the definition ended with).
RunEnd(p, ok) ==
  /\ pc[p] = "defn"
  /\ ~ok => ret[p].kind = "failed"
  /\ pc' = [pc EXCEPT ![p] = "idle"]
  /\ LET exit == IF ok THEN Right("done") ELSE ret[p].out
     IN  runOut' = [runOut EXCEPT ![p] =
                      [kind |-> "ended", out |-> provide(exit), defn |-> exit]]
  /\ ctx' = [ctx EXCEPT ![p] = NoCtx]
  /\ ret' = [ret EXCEPT ![p] = NoRet]
  /\ hist' = [hist EXCEPT ![p] =
               [NoHist EXCEPT !.runs = hist[p].runs, !.prevRef = ctx[p].stateRef]]
  /\ UNCHANGED <<now, refs, call, loc, calls, calc>>
  /\ console' = [console EXCEPT ![p] = <<>>]

\* Runs whose steps are unwrapped operations; fibers run concurrently.
Next ==
  \/ \E p \in Fibers : \E name \in HandlesOf(p) : Run(p, name)
  \/ \E p \in Fibers, name \in StepNames, effect \in PlainEffects :
       StepCall(p, name, effect)
  \/ \E p \in Fibers : StepHasCompleted(p)
  \/ \E p \in Fibers : StepGetStepResult(p)
  \/ \E p \in Fibers : StepExecute(p)
  \/ \E p \in Fibers : OpSucceed(p)
  \/ \E p \in Fibers : OpFail(p)
  \/ \E p \in Fibers : StepFail(p)
  \/ \E p \in Fibers : StepSetStepResult(p)
  \/ \E p \in Fibers : StepMarkCompleted(p)
  \/ \E p \in Fibers, ok \in BOOLEAN : RunEnd(p, ok)

Spec == Init /\ [][Next]_vars


\* --------------------------------------------------------- Workflow.retry
\* The inputs tried for options.delay: absent, a fixed duration, a function
\* of the retry index, and BackoffConfigs without and with jitter.
DelayFunction == [kind |-> "function"]
\* The function given as delay: (attempt) => attempt + 1 milliseconds.
ApplyDelayFunction(attempt) == NumberInput(attempt + 1)
ExponentialConfig ==
  [tag |-> "Exponential", base |-> NumberInput(1), factor |-> 2, max |-> NumberInput(3)]
JitterConfig ==
  [tag |-> "Constant", duration |-> NumberInput(2), jitter |-> [bool |-> TRUE]]
DelayInputs == {NumberInput(1), DelayFunction, ExponentialConfig, JitterConfig}
\* The inputs tried for options.maxDuration: 0 and 2 ms as numbers, 0 ms as
\* a string.
MaxDurationInputs == {NumberInput(0), NumberInput(2), StringInput(0)}

RetryOptions ==
  [maxAttempts : (-1)..MaxTries]
  \cup [maxAttempts : 0..MaxTries, delay : DelayInputs]
  \cup [maxAttempts : 0..MaxTries, delay : {NumberInput(1)},
        maxDuration : MaxDurationInputs]

\* const maxDurationMs = maxDuration ? Duration.toMillis(decode(maxDuration))
\*                                   : undefined      (<<>> stands for undefined)
maxDurationMs(options) ==
  IF Has(options, "maxDuration") /\ Truthy(options.maxDuration)
  THEN <<toMillis(decode(options.maxDuration))>>
  ELSE <<>>

\* Variants of attemptsExhausted that are off by one, late and early.
attemptsExhaustedLate(options, attempt) == attempt > options.maxAttempts
attemptsExhaustedEarly(options, attempt) == attempt >= options.maxAttempts - 1

\* After a failure and attempt++: `if (attempt >= maxAttempts) break`
attemptsExhausted(options, attempt) == attempt >= options.maxAttempts

\* `if (maxDurationMs !== undefined) { if (elapsed >= maxDurationMs) break }`
budgetExhausted(options, elapsed) ==
  /\ maxDurationMs(options) # <<>>
  /\ elapsed >= maxDurationMs(options)[1]

\* A variant of delayDuration that passes the number of failures, not the
\* retry index, to the delay function and to calculateDelay.
delayDurationByAttempt(options, attempt, rn) ==
  IF ~Has(options, "delay") THEN millis(DefaultDelayMs)
  ELSE IF options.delay = DelayFunction THEN decode(ApplyDelayFunction(attempt))
  ELSE IF isBackoffConfig(options.delay) THEN calculateDelay(options.delay, attempt, rn)
  ELSE decode(options.delay)

\* The delay before the next attempt; attempt is already incremented and
\* rn / RandDen is what Math.random() gives calculateDelay.
delayDuration(options, attempt, rn) ==
  IF ~Has(options, "delay") THEN millis(DefaultDelayMs)
  ELSE IF options.delay = DelayFunction THEN decode(ApplyDelayFunction(attempt - 1))
  ELSE IF isBackoffConfig(options.delay) THEN calculateDelay(options.delay, attempt - 1, rn)
  ELSE decode(options.delay)

\* new RetryExhaustedError({stepName: "unknown", attempts: attempt, lastError})
retryExhaustedError(attempt, lastError) ==
  RetryExhaustedError("unknown", attempt, lastError)

\* retry(options)(effect) starts: attempt = 0, lastError = null, startTime.
RetryBegin(p) ==
  /\ pc[p] = "execute"
  /\ Has(call[p].effect, "retry")
  /\ pc' = [pc EXCEPT ![p] = "while"]
  /\ loc' = [loc EXCEPT ![p] =
               [invocations |-> 0, attempt |-> 0, lastError |-> NullError,
                startTime |-> DateNow, sleeps |-> 0]]
  /\ UNCHANGED <<now, refs, ctx, call, ret, runOut, hist, calls, calc>>
  /\ console' = [console EXCEPT ![p] = ConsoleLog(@, call[p].name, "executing...")]

\* A variant of RetryAttempt that tests the condition after the body, as a
\* do-while loop does: the first attempt is made whatever maxAttempts is.
RetryAttemptThenTest(p) ==
  /\ pc[p] = "while"
  /\ loc[p].attempt < call[p].effect.retry.maxAttempts \/ loc[p].invocations = 0
  /\ pc' = [pc EXCEPT ![p] = "attempt"]
  /\ loc' = [loc EXCEPT ![p] =
               Put(Put(@, "invocations", loc[p].invocations + 1), "started", now)]
  /\ UNCHANGED <<now, refs, ctx, call, ret, runOut, hist, calls, calc, console>>

\* `while (attempt < maxAttempts)` holds: Effect.either(effect) starts.
RetryAttempt(p) ==
  /\ pc[p] = "while"
  /\ loc[p].attempt < call[p].effect.retry.maxAttempts
  /\ pc' = [pc EXCEPT ![p] = "attempt"]
  /\ loc' = [loc EXCEPT ![p] =
               Put(Put(@, "invocations", loc[p].invocations + 1), "started", now)]
  /\ UNCHANGED <<now, refs, ctx, call, ret, runOut, hist, calls, calc, console>>

\* `while (attempt < maxAttempts)` fails: the loop is left.
RetryLoopEnd(p) ==
  /\ pc[p] = "while"
  /\ ~(loc[p].attempt < call[p].effect.retry.maxAttempts)
  /\ pc' = [pc EXCEPT ![p] = "exhausted"]
  /\ UNCHANGED <<now, refs, ctx, call, loc, ret, runOut, hist, calls, calc, console>>

\* result._tag === "Right": return result.right
RetryReturn(p) ==
  /\ pc[p] = "either"
  /\ loc[p].result.tag = "Right"
  /\ pc' = [pc EXCEPT ![p] = "stepResult"]
  /\ UNCHANGED <<now, refs, ctx, call, loc, ret, runOut, hist, calls, calc, console>>

\* A variant of afterFailure that leaves lastError as it was.
afterFailureKeepsError(l) == [l EXCEPT !.attempt = l.attempt + 1]

\* The locals after `lastError = result.left; attempt++`.
afterFailure(l) ==
  [l EXCEPT !.lastError = l.result.left, !.attempt = l.attempt + 1]

\* A failed attempt that ends the loop: attempts or the budget are used up.
RetryBreak(p) ==
  /\ pc[p] = "either"
  /\ loc[p].result.tag = "Left"
  /\ LET l == afterFailure(loc[p])
         options == call[p].effect.retry
         elapsed == DateNow - l.startTime
     IN  /\ \/ attemptsExhausted(options, l.attempt)
            \/ budgetExhausted(options, elapsed)
         /\ loc' = [loc EXCEPT ![p] =
                      Put(Put(l, "elapsed", elapsed),
                          "byBudget", ~attemptsExhausted(options, l.attempt))]
  /\ pc' = [pc EXCEPT ![p] = "exhausted"]
  /\ UNCHANGED <<now, refs, ctx, call, ret, runOut, hist, calls, calc, console>>

\* A failed attempt that is retried: compute the delay and Effect.sleep.
RetrySleep(p, rn) ==
  /\ pc[p] = "either"
  /\ loc[p].result.tag = "Left"
  /\ LET l == afterFailure(loc[p])
         options == call[p].effect.retry
         elapsed == DateNow - l.startTime
     IN  /\ ~attemptsExhausted(options, l.attempt)
         /\ ~budgetExhausted(options, elapsed)
         /\ loc' = [loc EXCEPT ![p] =
                      Put(Put(Put(Put(l, "elapsed", elapsed),
                                  "delay", delayDuration(options, l.attempt, rn)),
                              "wakeAt", now + delayDuration(options, l.attempt, rn)),
                          "sleeps", l.sleeps + 1)]
  /\ pc' = [pc EXCEPT ![p] = "sleep"]
  /\ UNCHANGED <<now, refs, ctx, call, ret, runOut, hist, calls, calc, console>>

\* A variant of RetryWake that does not wait for the delay to pass.
RetryWakeEarly(p) ==
  /\ pc[p] = "sleep"
  /\ pc' = [pc EXCEPT ![p] = "while"]
  /\ UNCHANGED <<now, refs, ctx, call, loc, ret, runOut, hist, calls, calc, console>>

\* Effect.sleep(delayDuration) ends; the loop goes round.
RetryWake(p) ==
  /\ pc[p] = "sleep"
  /\ now >= loc[p].wakeAt
  /\ pc' = [pc EXCEPT ![p] = "while"]
  /\ UNCHANGED <<now, refs, ctx, call, loc, ret, runOut, hist, calls, calc, console>>

\* After the loop: Effect.fail(new RetryExhaustedError(...))
RetryFail(p) ==
  /\ pc[p] = "exhausted"
  /\ pc' = [pc EXCEPT ![p] = "stepResult"]
  /\ loc' = [loc EXCEPT ![p] =
               Put(@, "result",
                   Left(retryExhaustedError(loc[p].attempt, loc[p].lastError)))]
  /\ UNCHANGED <<now, refs, ctx, call, ret, runOut, hist, calls, calc, console>>

\* ------------------------------------------------------- Workflow.timeout
TimeoutInputs == {NumberInput(2)}

\* const timeoutMs = Duration.toMillis(Duration.decode(duration))
timeoutMs(duration) == toMillis(decode(duration))

\* A variant of deadline that runs from the start of the retry loop when
\* there is one.
deadlineOfLoop(p) ==
  (IF Has(loc[p], "startTime") THEN millis(loc[p].startTime) ELSE loc[p].started)
  + decode(call[p].effect.timeout)

\* Effect.timeoutFail: the deadline of the attempt the fiber is in, which
\* runs from the start of that attempt.
deadline(p) == loc[p].started + decode(call[p].effect.timeout)

\* A variant of onTimeout that reports the duration undecoded to millis.
onTimeoutRaw(duration) == StepTimeoutError("unknown", decode(duration))

\* onTimeout: () => new StepTimeoutError({stepName: "unknown", timeoutMs})
onTimeout(duration) == StepTimeoutError("unknown", timeoutMs(duration))

\* A variant of TimeoutFire that cannot interrupt the operation: the
\* timeout error is given only once the operation has ended by itself.
TimeoutFireUninterrupting(p) ==
  /\ pc[p] = "attempt"
  /\ Has(call[p].effect, "timeout")
  /\ now >= loc[p].started + decode(call[p].effect.timeout)
  /\ ~Hangs(call[p].effect.plan, loc[p].invocations)
  /\ pc' = [pc EXCEPT ![p] = AfterAttempt(p)]
  /\ loc' = [loc EXCEPT ![p] =
               Put(Put(Put(@, "result", Left(StepTimeoutError("unknown", timeoutMs(call[p].effect.timeout)))),
                       "produced", StepTimeoutError("unknown", timeoutMs(call[p].effect.timeout))),
                   "firedAt", now)]
  /\ UNCHANGED <<now, refs, ctx, call, ret, runOut, hist, calls, calc, console>>

\* The deadline passes while the operation is still running: the operation
\* is interrupted and the attempt fails with the timeout error.
TimeoutFire(p) ==
  /\ pc[p] = "attempt"
  /\ Has(call[p].effect, "timeout")
  /\ now >= deadline(p)
  /\ pc' = [pc EXCEPT ![p] = AfterAttempt(p)]
  /\ loc' = [loc EXCEPT ![p] =
               Put(Put(Put(@, "result", Left(onTimeout(call[p].effect.timeout))),
                       "produced", onTimeout(call[p].effect.timeout)),
                   "firedAt", now)]
  /\ UNCHANGED <<now, refs, ctx, call, ret, runOut, hist, calls, calc, console>>

\* --------------------------------------------------------------- the clock
\* Fibers inside an effect, where the time matters: the clock is let run
\* only while there is one (between steps only Date.now() in the workflowId
\* reads it).
Timed == {p \in Fibers : pc[p] \in {"attempt", "either", "sleep", "while", "exhausted"}}

\* The instants after now at which a sleep or a deadline ends.
WakeTimes ==
  {loc[p].wakeAt : p \in {q \in Fibers : pc[q] = "sleep"}}
  \cup {deadline(p) :
          p \in {q \in Fibers : pc[q] = "attempt" /\ Has(call[q].effect, "timeout")}}

\* One millisecond passes while a fiber is inside an effect.
TickMs ==
  /\ Timed # {}
  /\ now < millis(MaxFineMs)
  /\ now' = now + millis(1)
  /\ UNCHANGED <<refs, pc, ctx, call, loc, ret, runOut, hist, calls, calc, console>>

\* The clock moves on to the next such instant.
TickJump ==
  /\ \E t \in WakeTimes :
       /\ t > now
       /\ \A u \in WakeTimes : u > now => t <= u
       /\ now' = t
  /\ UNCHANGED <<refs, pc, ctx, call, loc, ret, runOut, hist, calls, calc, console>>

\* The effects tried in a step: the plain ones and the wrapped ones.
retry(options, effect) == Put(effect, "retry", options)
timeout(duration, effect) == Put(effect, "timeout", duration)
Operations == [value : {"v1"}, plan : Plans]
\* retry(timeout(...)) is tried with a fixed delay and no maxDuration.
WrappedEffects ==
  {retry(o, e) : o \in RetryOptions, e \in Operations}
  \cup {timeout(d, e) : d \in TimeoutInputs, e \in Operations}
  \cup {retry(o, timeout(d, e)) :
          o \in [maxAttempts : 0..MaxTries, delay : {NumberInput(1)}],
          d \in TimeoutInputs, e \in Operations}

\* One fiber; the first step it issues is retry(...), timeout(...) or
\* retry(timeout(...)) of an operation, the later ones are plain.
NextRetry ==
  \/ \E name \in HandlesOf("f1") : Run("f1", name)
  \/ \E effect \in WrappedEffects : calls = 0 /\ StepCall("f1", "a", effect)
  \/ \E name \in StepNames, effect \in PlainEffects :
       calls > 0 /\ StepCall("f1", name, effect)
  \/ StepHasCompleted("f1")
  \/ StepGetStepResult("f1")
  \/ StepExecute("f1")
  \/ RetryBegin("f1")
  \/ RetryAttempt("f1")
  \/ RetryLoopEnd("f1")
  \/ OpSucceed("f1")
  \/ OpFail("f1")
  \/ TimeoutFire("f1")
  \/ RetryReturn("f1")
  \/ RetryBreak("f1")
  \/ \E rn \in Randoms : RetrySleep("f1", rn)
  \/ RetryWake("f1")
  \/ RetryFail("f1")
  \/ StepFail("f1")
  \/ StepSetStepResult("f1")
  \/ StepMarkCompleted("f1")
  \/ \E ok \in BOOLEAN : RunEnd("f1", ok)
  \/ TickMs
  \/ TickJump

SpecRetry == Init /\ [][NextRetry]_vars

\* ------------------------------------------- retry(timeout(...)), scheduled
\* retry(opts)(timeout(d)(op)) with a fixed delay, op also Effect.never.
RetryTimeoutEffects ==
  {retry(o, timeout(d, e)) :
     o \in [maxAttempts : 0..MaxTries, delay : {NumberInput(1)}],
     d \in TimeoutInputs, e \in Operations \cup {never}}

\* One fiber whose run has one step, retry(timeout(...)) of an operation.
NextRetryTimeout ==
  \/ \E name \in HandlesOf("f1") : Run("f1", name)
  \/ \E effect \in RetryTimeoutEffects : calls = 0 /\ StepCall("f1", "a", effect)
  \/ StepHasCompleted("f1")
  \/ RetryBegin("f1")
  \/ RetryAttempt("f1")
  \/ RetryLoopEnd("f1")
  \/ OpSucceed("f1")
  \/ OpFail("f1")
  \/ TimeoutFire("f1")
  \/ RetryReturn("f1")
  \/ RetryBreak("f1")
  \/ \E rn \in Randoms : RetrySleep("f1", rn)
  \/ RetryWake("f1")
  \/ RetryFail("f1")
  \/ StepFail("f1")
  \/ StepSetStepResult("f1")
  \/ StepMarkCompleted("f1")
  \/ \E ok \in BOOLEAN : RunEnd("f1", ok)
  \/ TickMs
  \/ TickJump

\* The fiber runtime runs every continuation that is ready, the clock
\* reaches every pending sleep and deadline, and a sleep or a timeout whose
\* time has come fires; whether and when an operation completes, and when a
\* run or a step is started, is left open.
FairRetryTimeout ==
  /\ WF_vars(RetryBegin("f1"))
  /\ WF_vars(RetryAttempt("f1"))
  /\ WF_vars(RetryLoopEnd("f1"))
  /\ WF_vars(TimeoutFire("f1"))
  /\ WF_vars(RetryReturn("f1"))
  /\ WF_vars(RetryBreak("f1"))
  /\ WF_vars(\E rn \in Randoms : RetrySleep("f1", rn))
  /\ WF_vars(RetryWake("f1"))
  /\ WF_vars(RetryFail("f1"))
  /\ WF_vars(TickJump)

SpecRetryTimeout == Init /\ [][NextRetryTimeout]_vars /\ FairRetryTimeout


\* ------------------------------------------ concurrent steps inside one run
\* The definition starts a child fiber q (Effect.fork, or Effect.all with
\* concurrency): the child runs with the parent's WorkflowContext, the
\* layer run provides covering the whole definition.
Fork(p, q) ==
  /\ p # q
  /\ pc[p] = "defn"
  /\ pc[q] = "idle"
  /\ ctx' = [ctx EXCEPT ![q] = ctx[p]]
  /\ pc' = [pc EXCEPT ![q] = "defn"]
  /\ call' = [call EXCEPT ![q] = NoCall]
  /\ loc' = [loc EXCEPT ![q] = NoLoc]
  /\ ret' = [ret EXCEPT ![q] = NoRet]
  /\ hist' = [hist EXCEPT ![q] =
               [NoHist EXCEPT !.runs = hist[q].runs, !.prevRef = hist[q].prevRef]]
  /\ console' = [console EXCEPT ![q] = <<>>]
  /\ UNCHANGED <<now, refs, runOut, calls, calc>>

\* The step names fiber q has called step with in its run.
NamesOf(q) ==
  {n \in StepNames :
     \/ call[q].name = n
     \/ n \in DOMAIN hist[q].mine.stepResults
     \/ n \in hist[q].failed}

\* One run of f1 whose definition forks f2; the two fibers issue step calls
\* of plain operations under names of their own, in any interleaving.
NextConcurrent ==
  \/ \E name \in HandlesOf("f1") : Run("f1", name)
  \/ Fork("f1", "f2")
  \/ \E p \in Fibers, name \in StepNames, effect \in PlainEffects :
       /\ \A q \in Fibers \ {p} : name \notin NamesOf(q)
       /\ StepCall(p, name, effect)
  \/ \E p \in Fibers : StepHasCompleted(p)
  \/ \E p \in Fibers : StepGetStepResult(p)
  \/ \E p \in Fibers : StepExecute(p)
  \/ \E p \in Fibers : OpSucceed(p)
  \/ \E p \in Fibers : OpFail(p)
  \/ \E p \in Fibers : StepFail(p)
  \/ \E p \in Fibers : StepSetStepResult(p)
  \/ \E p \in Fibers : StepMarkCompleted(p)

SpecConcurrent == Init /\ [][NextConcurrent]_vars


\* ----------------------------------------------- calculateDelay on its own
\* The set S of records, and every record of S with key set to a value of vs.
WithOptional(S, key, vs) == S \cup {Put(c, key, v) : c \in S, v \in vs}

\* The values of config.jitter: false, true, and the three JitterConfig
\* types, decorrelated also with a factor of its own.
JitterInputs ==
  {[bool |-> FALSE], [bool |-> TRUE], [type |-> "full"], [type |-> "equal"],
   [type |-> "decorrelated"], [type |-> "decorrelated", factor |-> 0],
   [type |-> "decorrelated", factor |-> 2]}

\* Backoff.exponential: small bases with the factor absent, 0, 1 and 3, and
\* "1000 millis" with the factor absent and 2; max absent, 0 and a value
\* reached by the second or by the fifth delay.
ExponentialConfigs ==
  WithOptional(
    WithOptional([tag : {"Exponential"}, base : {NumberInput(0), NumberInput(1)}],
                 "factor", {0, 1, 3}),
    "max", {NumberInput(0), NumberInput(3)})
  \cup WithOptional(
         WithOptional([tag : {"Exponential"}, base : {StringInput(1000)}],
                      "factor", {2}),
         "max", {NumberInput(10000)})

\* Backoff.linear
LinearConfigs ==
  WithOptional([tag : {"Linear"}, initial : {NumberInput(0), NumberInput(1)},
                increment : {NumberInput(0), NumberInput(2)}],
               "max", {NumberInput(0), NumberInput(3)})

\* Backoff.constant
ConstantConfigs ==
  [tag : {"Constant"}, duration : {NumberInput(0), NumberInput(2), StringInput(1000)}]

BackoffConfigs ==
  WithOptional(ExponentialConfigs \cup LinearConfigs \cup ConstantConfigs,
               "jitter", JitterInputs)

\* A caller is about to call calculateDelay(config, attempt, random) twice;
\* random[i] / RandDen is what its random source returns in the i-th call.
InitDelay ==
  /\ NoRuns
  /\ calc \in [config : BackoffConfigs, attempt : 0..MaxIndex,
                random : Randoms \X Randoms, capped : {<<>>}, out : {<<>>}]

\* One call of calculateDelay: capped keeps its cappedDelay, out what it
\* returned.
CalculateDelay ==
  /\ calc # NoCalc
  /\ Len(calc.out) < Len(calc.random)
  /\ LET rn == calc.random[Len(calc.out) + 1]
         cappedDelay == applyMax(calc.config, calculateBaseDelay(calc.config, calc.attempt))
     IN  calc' = [calc EXCEPT
                    !.capped = Append(@, cappedDelay),
                    !.out = Append(@, calculateDelay(calc.config, calc.attempt, rn))]
  /\ UNCHANGED <<now, refs, pc, ctx, call, loc, ret, runOut, hist, calls, console>>

NextDelay == CalculateDelay

SpecDelay == InitDelay /\ [][NextDelay]_vars


\* ====================================================== properties, steps
\* Fibers that are inside a run.
Running == {p \in Fibers : ctx[p] # NoCtx}
\* The fiber is where the operation of its step call has been started.
Executing(p) == pc[p] \in {"execute", "attempt", "stepResult", "markCompleted"}
\* The last step call of the fiber's run came back and no new one started.
Returned(p, kind) == pc[p] = "defn" /\ ret[p].kind = kind

\* C1: once step(name, op1) has succeeded with a defined value v in a run,
\* a later step(name, op2) of that run never starts op2, and when it is back
\* it has returned v from the cache and the run's WorkflowState is as it was
\* when the call was made.
C1_CompletedStepIsServedFromCache ==
  \A p \in Running :
    /\ Executing(p) => call[p].name \notin DOMAIN hist[p].done
    /\ pc[p] \in {"hasCompleted", "getStepResult"}
         /\ call[p].name \in DOMAIN hist[p].done
       => State(p) = hist[p].snap
    /\ Returned(p, "cached") =>
         /\ ret[p].name \in DOMAIN hist[p].done
         /\ ret[p].out = Right(hist[p].done[ret[p].name])
         /\ State(p) = hist[p].snap

\* A second step call of a name was answered from the cache with the value
\* null, which the first call had produced.
C1_Witness ==
  \E p \in Running :
    /\ Returned(p, "cached")
    /\ ret[p].out = Right(Null)
    /\ State(p).completedSteps = <<ret[p].name>>

\* C2: when the operation of step(name, op) fails, the caller gets the
\* failure (a StepError whose cause is the operation's error) and the run's
\* WorkflowState is as it was before the call; a name whose last call failed
\* is never answered from the cache, so a later call starts its operation.
C2_FailedStepLeavesStateAlone ==
  \A p \in Running :
    /\ Returned(p, "failed") =>
         /\ State(p) = hist[p].snap
         /\ ret[p].out.tag = "Left"
         /\ ret[p].out.left.tag = "StepError"
         /\ ret[p].out.left.cause.tag \in {"Error", "StepTimeoutError", "RetryExhaustedError"}
         /\ ret[p].name \in hist[p].failed
    /\ Returned(p, "cached") => ret[p].name \notin hist[p].failed

\* After step(name, op) failed, the operation of a later call of the same
\* name is running.
C2_Witness ==
  \E p \in Running :
    /\ pc[p] = "attempt"
    /\ ret[p].kind = "failed"
    /\ ret[p].name = call[p].name

\* C3: the definition of every handle.run(input) starts on an empty
\* WorkflowState, and a step is answered from the cache only if it succeeded
\* earlier in the same run, whatever earlier runs completed.
C3_RunStartsFromEmptyState ==
  \A p \in Running :
    /\ Returned(p, "none") => State(p) = EmptyWorkflowState
    /\ pc[p] = "getStepResult" => call[p].name \in Range(hist[p].mine.completedSteps)
    /\ Returned(p, "cached") => ret[p].name \in DOMAIN hist[p].done

\* In its second run a fiber runs the operation of a step that its first
\* run had completed with a defined result.
C3_Witness ==
  \E p \in Running :
    /\ hist[p].prevRef > 0
    /\ pc[p] = "attempt"
    /\ hasCompleted(refs[hist[p].prevRef], call[p].name)
    /\ getStepResult(refs[hist[p].prevRef], call[p].name) # Undefined

\* C4: concurrent runs have different WorkflowStates, and the state of a run
\* holds exactly what the steps of that run wrote, under every interleaving.
C4_RunsAreIsolated ==
  /\ \A p, q \in Running : p # q => ctx[p].stateRef # ctx[q].stateRef
  /\ \A p \in Running : State(p) = hist[p].mine

\* Two concurrent runs of the same handle: one has completed a step with a
\* defined result, the other runs the operation of a step of the same name.
C4_Witness ==
  \E p, q \in Running :
    /\ p # q
    /\ ctx[p].workflowName = ctx[q].workflowName
    /\ pc[q] = "attempt"
    /\ call[q].name \in DOMAIN hist[p].done

\* C11: handle.run(input) ends with exactly what definition(input) ended
\* with, the value or the error, and once it has ended the definition is not
\* started again by it.
C11_RunPassesTheDefinitionsExitOn ==
  \A p \in Fibers :
    runOut[p].kind = "ended"
    => /\ runOut[p].out = runOut[p].defn
       /\ pc[p] = "idle"

\* A run has failed with the StepError of its failed step, unwrapped.
C11_Witness ==
  \E p \in Fibers :
    /\ runOut[p].kind = "ended"
    /\ runOut[p].out.tag = "Left"
    /\ runOut[p].out.left = StepError("a", OpError(1), 0)


\* ============================================ properties, retry and timeout
\* The fiber's step runs retry(options)(operation), with no timeout inside.
InRetry(p) ==
  /\ call[p] # NoCall
  /\ Has(call[p].effect, "retry")
  /\ ~Has(call[p].effect, "timeout")
\* The fiber's step runs retry(options)(timeout(d)(operation)).
InRetryTimeout(p) ==
  /\ call[p] # NoCall
  /\ Has(call[p].effect, "retry")
  /\ Has(call[p].effect, "timeout")
\* The fiber's step runs timeout(d)(operation), with no retry around it.
InTimeout(p) ==
  /\ call[p] # NoCall
  /\ ~Has(call[p].effect, "retry")
  /\ Has(call[p].effect, "timeout")
\* The wrapped effect of the fiber's step has ended and step has its outcome.
Ended(p) == pc[p] = "stepResult"
\* The operation fails on every invocation.
AlwaysFails(p) == call[p].effect.plan = [succAt |-> 0, hangAt |-> 0]
\* The operation fails on its first k-1 invocations and succeeds on the k-th.
SucceedsAt(p, k) == call[p].effect.plan = [succAt |-> k, hangAt |-> 0]
\* The retry loop was left because the maxDuration budget was used up.
EndedByBudget(p) == Has(loc[p], "byBudget") /\ loc[p].byBudget

\* C5: with maxAttempts = N >= 1 and no maxDuration, retry of an operation
\* that always fails has, when it ends, invoked the operation N times, slept
\* N-1 delays and failed with RetryExhaustedError of attempts = N; before it
\* ends it has never invoked more than N times nor slept more than N-1.
C5_AlwaysFailingUsesAllAttempts ==
  \A p \in Fibers :
    InRetry(p) /\ AlwaysFails(p) /\ ~Has(call[p].effect.retry, "maxDuration")
      /\ call[p].effect.retry.maxAttempts >= 1
    => LET N == call[p].effect.retry.maxAttempts
       IN  /\ loc[p].invocations <= N
           /\ Has(loc[p], "sleeps") => loc[p].sleeps <= N - 1
           /\ Ended(p) =>
                /\ loc[p].invocations = N
                /\ loc[p].sleeps = N - 1
                /\ loc[p].result.tag = "Left"
                /\ loc[p].result.left.tag = "RetryExhaustedError"
                /\ loc[p].result.left.attempts = N

\* retry({maxAttempts: MaxTries}) of an always failing operation has ended.
C5_Witness ==
  \E p \in Fibers :
    /\ InRetry(p) /\ AlwaysFails(p) /\ Ended(p)
    /\ ~Has(call[p].effect.retry, "maxDuration")
    /\ call[p].effect.retry.maxAttempts = MaxTries
    /\ loc[p].sleeps = MaxTries - 1

\* What C6 asks of an ended retry of an operation that succeeds on its k-th
\* invocation.
SucceededAt(p, k) ==
  /\ loc[p].invocations = k
  /\ loc[p].sleeps = k - 1
  /\ loc[p].result = Right(call[p].effect.value)

\* C6 as stated: for every 1 <= k <= maxAttempts, retry of an operation that
\* fails k-1 times and then succeeds ends with k invocations, k-1 delays and
\* the success value.
C6_AsStated ==
  \A p \in Fibers : \A k \in 1..MaxTries :
    InRetry(p) /\ SucceedsAt(p, k) /\ k <= call[p].effect.retry.maxAttempts
      /\ Ended(p)
    => SucceededAt(p, k)

\* C6, amended: the same, provided the loop was not left because the
\* maxDuration budget was used up after one of the first k-1 failures.
C6_SucceedsOnKthAttempt ==
  \A p \in Fibers : \A k \in 1..MaxTries :
    InRetry(p) /\ SucceedsAt(p, k) /\ k <= call[p].effect.retry.maxAttempts
      /\ Ended(p) /\ ~EndedByBudget(p)
    => SucceededAt(p, k)

\* retry with maxAttempts = k = MaxTries has returned the value of the k-th
\* invocation.
C6_Witness ==
  \E p \in Fibers :
    /\ InRetry(p) /\ SucceedsAt(p, MaxTries) /\ Ended(p)
    /\ call[p].effect.retry.maxAttempts = MaxTries
    /\ loc[p].result = Right(call[p].effect.value)
    /\ loc[p].sleeps = MaxTries - 1

\* C7: when maxDuration is set, no delay is slept after a failure at which
\* the elapsed time had reached maxDuration, and a loop left for the budget
\* fails with the attempts made so far, fewer than maxAttempts.
C7_BudgetEndsTheLoop ==
  \A p \in Fibers :
    InRetry(p) /\ Has(call[p].effect.retry, "maxDuration")
    => /\ pc[p] = "sleep" =>
            loc[p].elapsed < toMillis(decode(call[p].effect.retry.maxDuration))
       /\ Ended(p) /\ EndedByBudget(p) =>
            /\ loc[p].result.left.tag = "RetryExhaustedError"
            /\ loc[p].result.left.attempts = loc[p].invocations
            /\ loc[p].result.left.attempts < call[p].effect.retry.maxAttempts

\* C8: a RetryExhaustedError carries the number of invocations made and,
\* when there was one, the error of the most recent invocation.
C8_ExhaustionCarriesAttemptsAndLastError ==
  \A p \in Fibers :
    call[p] # NoCall /\ Has(call[p].effect, "retry") /\ Ended(p)
      /\ loc[p].result.tag = "Left"
    => /\ loc[p].result.left.tag = "RetryExhaustedError"
       /\ loc[p].result.left.attempts = loc[p].invocations
       /\ loc[p].invocations > 0 => loc[p].result.left.lastError = loc[p].produced
       /\ loc[p].invocations > 0 => loc[p].result.left.lastError # NullError

\* A retry left for the budget after two failures of three allowed: the
\* error has attempts = 2 and the error of the second invocation.
C8_Witness ==
  \E p \in Fibers :
    /\ InRetry(p) /\ Ended(p) /\ EndedByBudget(p)
    /\ loc[p].result = Left(RetryExhaustedError("unknown", 2, OpError(2)))

\* C9: timeout(d)(op) ends with op's own outcome, the value or the error of
\* that invocation, unless the deadline fired; the deadline fires no earlier
\* than d after the attempt started and gives StepTimeoutError with
\* timeoutMs = d in milliseconds, whatever op would have ended with.
C9_TimeoutIsARace ==
  \A p \in Fibers :
    InTimeout(p) /\ Ended(p)
    => LET plan == call[p].effect.plan
           d == call[p].effect.timeout
       IN  \/ /\ ~Has(loc[p], "firedAt")
              /\ plan.succAt = 1
              /\ loc[p].result = Right(call[p].effect.value)
           \/ /\ ~Has(loc[p], "firedAt")
              /\ plan.succAt # 1 /\ plan.hangAt # 1
              /\ loc[p].result = Left(OpError(1))
           \/ /\ Has(loc[p], "firedAt")
              /\ loc[p].firedAt >= loc[p].started + millis(d.n)
              /\ loc[p].result = Left(StepTimeoutError("unknown", d.n))

\* The deadline fired on an operation that would have succeeded.
C9_Witness ==
  \E p \in Fibers :
    /\ InTimeout(p) /\ Ended(p)
    /\ call[p].effect.plan.succAt = 1
    /\ loc[p].result.tag = "Left"
    /\ loc[p].result.left.tag = "StepTimeoutError"

\* C10: in retry(opts)(timeout(d)(op)) the deadline of every attempt fires
\* no earlier than d after that attempt started, and can fire then; an
\* attempt that timed out is counted and recorded as a failure, the loop is
\* left only when maxAttempts are used up, and the RetryExhaustedError then
\* has the error of the last attempt.
C10_EachAttemptHasItsOwnDeadline ==
  \A p \in Fibers :
    InRetryTimeout(p)
    => LET d == call[p].effect.timeout
           timedOut == /\ Has(loc[p], "result")
                       /\ loc[p].result = Left(StepTimeoutError("unknown", d.n))
       IN  /\ pc[p] = "attempt" =>
                (ENABLED TimeoutFire(p) <=> now >= loc[p].started + millis(d.n))
           /\ pc[p] \in {"either", "sleep", "exhausted"} /\ timedOut =>
                loc[p].firedAt >= loc[p].started + millis(d.n)
           /\ pc[p] \in {"sleep", "exhausted"} /\ timedOut =>
                /\ loc[p].lastError = StepTimeoutError("unknown", d.n)
                /\ loc[p].attempt = loc[p].invocations
           /\ pc[p] = "exhausted" =>
                loc[p].attempt >= call[p].effect.retry.maxAttempts
           /\ Ended(p) /\ loc[p].result.tag = "Left" /\ loc[p].invocations > 0 =>
                loc[p].result.left.lastError = loc[p].produced

\* The second attempt timed out d after it started, later than d after the
\* loop started, and the retry gave up with that timeout as lastError.
C10_Witness ==
  \E p \in Fibers :
    /\ InRetryTimeout(p) /\ Ended(p)
    /\ loc[p].invocations = 2
    /\ loc[p].result =
         Left(RetryExhaustedError("unknown", 2,
                StepTimeoutError("unknown", call[p].effect.timeout.n)))
    /\ loc[p].firedAt = loc[p].started + millis(call[p].effect.timeout.n)
    /\ loc[p].started > millis(loc[p].startTime)

\* The fiber's step runs retry(options)(...), with or without a timeout.
InAnyRetry(p) == call[p] # NoCall /\ Has(call[p].effect, "retry")

\* C12: within one retry the invocations are sequential: an invocation
\* starts only from the head of the loop, never while another is running;
\* every invocation after the first starts only when the one before it has
\* failed and the clock has reached the end of the delay computed for that
\* failure, a delay that was started after the failure and slept in full.
C12_AttemptsNeverOverlap ==
  [][\A p \in Fibers :
       InAnyRetry(p)
       => /\ pc'[p] = "attempt" /\ loc'[p] # loc[p] =>
               /\ pc[p] = "while"
               /\ loc'[p].invocations = loc[p].invocations + 1
               /\ loc[p].invocations >= 1 =>
                    /\ loc[p].result.tag = "Left"
                    /\ now >= loc[p].wakeAt
          /\ pc[p] # "sleep" /\ pc'[p] = "sleep" =>
               /\ pc[p] = "either"
               /\ loc[p].result.tag = "Left"
               /\ loc'[p].wakeAt = now + loc'[p].delay
          /\ pc[p] = "sleep" /\ pc'[p] # "sleep" =>
               /\ pc'[p] = "while"
               /\ now >= loc[p].wakeAt
    ]_vars

\* The third invocation is running; it started when the second delay, of
\* 2 ms, had passed since the second failure.
C12_Witness ==
  \E p \in Fibers :
    /\ InAnyRetry(p)
    /\ pc[p] = "attempt"
    /\ loc[p].invocations = 3
    /\ loc[p].delay = millis(2)
    /\ loc[p].started = loc[p].wakeAt

\* C19: a RetryExhaustedError or StepTimeoutError that retry(...) or
\* timeout(...) raises inside step(name, ...) has stepName = name, in the
\* wrapper's own failure and as the cause of the StepError the caller gets.
C19_ErrorsCarryTheStepName ==
  \A p \in Fibers :
    /\ (pc[p] = "stepResult" /\ loc[p].result.tag = "Left"
          /\ loc[p].result.left.tag \in {"RetryExhaustedError", "StepTimeoutError"})
       => loc[p].result.left.stepName = call[p].name
    /\ (Returned(p, "failed")
          /\ ret[p].out.left.cause.tag \in {"RetryExhaustedError", "StepTimeoutError"})
       => ret[p].out.left.cause.stepName = ret[p].name

\* C20: a failure of the operation inside step(name, op) reaches the caller
\* as a StepError with stepName = name, with the error the operation failed
\* with as its cause, and with attempt = the number of the invocation of the
\* operation that failed, counted from 1.
C20_StepErrorHasNameCauseAndAttempt ==
  \A p \in Fibers :
    Returned(p, "failed")
    => /\ ret[p].out.tag = "Left"
       /\ ret[p].out.left.tag = "StepError"
       /\ ret[p].out.left.stepName = ret[p].name
       /\ ret[p].out.left.cause.tag \in {"Error", "StepTimeoutError", "RetryExhaustedError"}
       /\ ret[p].out.left.attempt = ret[p].invocations


\* ================================================ properties, calculateDelay
\* The calls of calculateDelay made so far.
Called == IF calc = NoCalc THEN {} ELSE 1..Len(calc.out)
\* f to the power n, counted: the number of ways to pick n times one of f.
Power(f, n) == Cardinality([1..n -> 1..f])
\* The reference delay of a config at retry index n, in milliseconds.
Reference(config, n) ==
  CASE config.tag = "Exponential" ->
         config.base.n * Power(IF Has(config, "factor") THEN config.factor ELSE 2, n)
    [] config.tag = "Linear" -> config.initial.n + n * config.increment.n
    [] config.tag = "Constant" -> config.duration.n
\* The smaller of two numbers.
Min(a, b) == IF a <= b THEN a ELSE b
\* The config asks for no jitter: jitter is absent or false.
NoJitter(config) == ~Has(config, "jitter") \/ config.jitter = [bool |-> FALSE]
\* The type of jitter the config asks for.
JitterType(config) == IF NoJitter(config) THEN "none" ELSE JitterOf(config).type
\* "1000 millis" doubling up to 10000 ms, the worked example of the cap.
CappedExample ==
  [tag |-> "Exponential", base |-> StringInput(1000), factor |-> 2,
   max |-> NumberInput(10000)]

\* C13: for a config without max and without jitter, calculateDelay at
\* retry index n returns base * factor^n (factor 2 when absent) for
\* Exponential, initial + n * increment for Linear, and duration for
\* Constant.
C13_DelayFollowsTheFormula ==
  \A i \in Called :
    ~Has(calc.config, "max") /\ ~Has(calc.config, "jitter")
    => calc.out[i] = millis(Reference(calc.config, calc.attempt))

\* "1000 millis" with no factor given, at retry index 2: 4000 ms.
C13_Witness ==
  /\ Called # {}
  /\ calc.config = [tag |-> "Exponential", base |-> StringInput(1000)]
  /\ calc.attempt = 2
  /\ calc.out[1] = millis(4000)

\* C14: for a config with max, the delay before jitter is the smaller of
\* the reference delay and max at every retry index (the example gives
\* 1000, 2000, 4000, 8000, 10000 ms at indices 0..4), and what is returned
\* is the jitter of that capped delay, which the cap is not applied to again.
C14_CapComesBeforeJitter ==
  \A i \in Called :
    Has(calc.config, "max")
    => LET capped == millis(Min(Reference(calc.config, calc.attempt), calc.config.max.n))
       IN  /\ calc.capped[i] = capped
           /\ calc.capped[i] <= millis(calc.config.max.n)
           /\ calc.out[i] = applyJitter(calc.config, capped, calc.random[i])
           /\ (calc.config = CappedExample /\ calc.attempt <= 4) =>
                calc.capped[i] =
                  millis(<<1000, 2000, 4000, 8000, 10000>>[calc.attempt + 1])

\* The example with decorrelated jitter at index 4 and random() = 3/4:
\* the capped delay is 10000 ms and 22500 ms are returned, above max.
C14_Witness ==
  /\ Called # {}
  /\ calc.config = Put(CappedExample, "jitter", [type |-> "decorrelated"])
  /\ calc.attempt = 4
  /\ calc.random[1] = 3
  /\ calc.capped[1] = millis(10000)
  /\ RandDen * calc.out[1] = 3 * 3 * millis(10000)
  /\ calc.out[1] > millis(calc.config.max.n)

\* C15: with capped delay d and random() = r, full jitter (also asked for
\* by `jitter: true`) returns r * d, within [0, d], and equal jitter returns
\* d/2 + r * (d/2), within [d/2, d]; Constant 1000 ms with equal jitter and
\* r = 1/2 returns 750 ms.
C15_FullAndEqualJitterRanges ==
  \A i \in Called :
    LET d == calc.capped[i]
        rn == calc.random[i]
    IN  /\ JitterType(calc.config) = "full" =>
             /\ RandDen * calc.out[i] = rn * d
             /\ 0 <= calc.out[i] /\ calc.out[i] <= d
        /\ JitterType(calc.config) = "equal" =>
             /\ 2 * RandDen * calc.out[i] = RandDen * d + rn * d
             /\ d <= 2 * calc.out[i] /\ calc.out[i] <= d
             /\ (d = millis(1000) /\ 2 * rn = RandDen) => calc.out[i] = millis(750)

\* Constant "1000 millis" with equal jitter and random() = 1/2 gave 750 ms.
C15_Witness ==
  /\ Called # {}
  /\ calc.config = [tag |-> "Constant", duration |-> StringInput(1000),
                    jitter |-> [type |-> "equal"]]
  /\ 2 * calc.random[1] = RandDen
  /\ calc.out[1] = millis(750)

\* C16: with capped delay d of this retry index and random() = r,
\* decorrelated jitter returns r * d * factor, factor being 3 when the
\* JitterConfig has none; this is at least 0 and below factor * d (it is 0
\* when factor * d is 0).
C16_DecorrelatedJitter ==
  \A i \in Called :
    JitterType(calc.config) = "decorrelated"
    => LET d == calc.capped[i]
           rn == calc.random[i]
           factor == IF Has(calc.config.jitter, "factor")
                     THEN calc.config.jitter.factor ELSE 3
       IN  /\ RandDen * calc.out[i] = rn * d * factor
           /\ 0 <= calc.out[i]
           /\ factor * d > 0 => calc.out[i] < factor * d
           /\ factor * d = 0 => calc.out[i] = 0

\* A Linear config capped at max = 3 ms returned more than max under
\* decorrelated jitter with the default factor.
C16_Witness ==
  /\ Called # {}
  /\ calc.config.tag = "Linear"
  /\ Has(calc.config, "max")
  /\ JitterType(calc.config) = "decorrelated"
  /\ ~Has(calc.config.jitter, "factor")
  /\ calc.capped[1] = millis(calc.config.max.n)
  /\ calc.out[1] > millis(calc.config.max.n)

\* C17: calculateDelay returns no negative duration, for every variant,
\* retry index, jitter and random value, the numbers of the config being
\* non-negative.
C17_DelayIsNeverNegative ==
  \A i \in Called : calc.out[i] >= 0

\* Full jitter of a positive capped delay with random() = 0: the smallest
\* delay, 0, was returned.
C17_Witness ==
  /\ Called # {}
  /\ JitterType(calc.config) = "full"
  /\ calc.random[1] = 0
  /\ calc.capped[1] > 0
  /\ calc.out[1] = 0

C21_DelayIsChosenByRetryIndex ==
  \A p \in Fibers :
    InAnyRetry(p) /\ pc[p] = "sleep"
    => LET options == call[p].effect.retry
           j == loc[p].attempt
       IN  /\ loc[p].sleeps = j
           /\ loc[p].invocations = j
           /\ ~Has(options, "delay") => loc[p].delay = millis(1000)
           /\ Has(options, "delay") =>
                CASE options.delay = DelayFunction -> loc[p].delay = millis(j)
                  [] isBackoffConfig(options.delay) ->
                       /\ \E rn \in Randoms :
                            loc[p].delay = calculateDelay(options.delay, j - 1, rn)
                       /\ options.delay = ExponentialConfig =>
                            loc[p].delay =
                              millis(Min(Reference(options.delay, j - 1),
                                         options.delay.max.n))
                       /\ (options.delay = ExponentialConfig /\ j = 1) =>
                            loc[p].delay = millis(options.delay.base.n)
                  [] OTHER -> loc[p].delay = millis(options.delay.n)

\* The second delay of a retry with the Exponential config (base 1 ms,
\* factor 2) is being slept: 2 ms, the delay of retry index 1.
C21_Witness ==
  \E p \in Fibers :
    /\ InAnyRetry(p) /\ pc[p] = "sleep"
    /\ Has(call[p].effect.retry, "delay")
    /\ call[p].effect.retry.delay = ExponentialConfig
    /\ loc[p].sleeps = 2
    /\ loc[p].delay = millis(2)


\* ============================================ properties, the run's state
\* The step call the fiber is back from was made when its name was already
\* marked completed.
WasCompleted(p) == hasCompleted(hist[p].snap, ret[p].name)

\* C22: a step call whose name is marked completed but has no cached result
\* (the Map gives undefined) is not answered from the cache: a call answered
\* from the cache returns a defined value, and a call of a completed name
\* that ran its operation found undefined cached, then stored the new result
\* and appended the name to the completed steps once more.
C22_CompletedWithoutResultRunsAgain ==
  \A p \in Running :
    /\ Returned(p, "cached") =>
         /\ ret[p].out.right # Undefined
         /\ getStepResult(hist[p].snap, ret[p].name) # Undefined
    /\ pc[p] \in {"execute", "attempt", "stepResult", "markCompleted"}
         /\ hasCompleted(hist[p].snap, call[p].name)
       => getStepResult(hist[p].snap, call[p].name) = Undefined
    /\ Returned(p, "executed") /\ WasCompleted(p) =>
         /\ getStepResult(hist[p].snap, ret[p].name) = Undefined
         /\ State(p) =
              markCompleted(setStepResult(hist[p].snap, ret[p].name, ret[p].out.right),
                            ret[p].name)

\* A step that had succeeded with undefined was called again, ran its
\* operation and succeeded with a defined value, which is now cached.
C22_Witness ==
  \E p \in Running :
    /\ Returned(p, "executed") /\ WasCompleted(p)
    /\ ret[p].out = Right("v1")
    /\ getStepResult(State(p), ret[p].name) = "v1"
    /\ State(p).completedSteps = <<ret[p].name, ret[p].name>>

\* C23: the completed steps of a run list the names in the order in which
\* the steps completed and hold every name at most once.
C23_CompletedStepsIsAnOrderedSet ==
  \A p \in Running :
    /\ Cardinality(Range(State(p).completedSteps)) = Len(State(p).completedSteps)
    /\ Returned(p, "executed") =>
         State(p).completedSteps[Len(State(p).completedSteps)] = ret[p].name

\* The line step logs for an event of the step called name.
Line(name, line) == [name |-> name, line |-> line]

\* C24: a step call logs first one start line or one cache-hit line, and a
\* call that ran its operation logs one more line after it, for the success
\* or for the failure of the operation; nothing else.
C24_StepLogsItsLifecycle ==
  \A p \in Fibers :
    /\ Returned(p, "cached") => console[p] = <<Line(ret[p].name, "cached")>>
    /\ Returned(p, "executed") =>
         console[p] = <<Line(ret[p].name, "executing..."), Line(ret[p].name, "completed")>>
    /\ Returned(p, "failed") =>
         /\ Len(console[p]) = 2
         /\ console[p][1] = Line(ret[p].name, "executing...")
         /\ console[p][2].name = ret[p].name
         /\ console[p][2].line \notin {"cached", "executing...", "completed"}


\* ====================================== properties, the retry loop (cont.)
\* C25: retry(options)(op) never invokes op more than maxAttempts times;
\* with maxAttempts <= 0 it invokes op not at all, sleeps no delay and
\* fails with RetryExhaustedError of attempts = 0 and lastError = null.
C25_InvocationsAreBoundedByMaxAttempts ==
  \A p \in Fibers :
    InAnyRetry(p)
    => LET N == call[p].effect.retry.maxAttempts
       IN  /\ N >= 0 => loc[p].invocations <= N
           /\ N <= 0 =>
                /\ loc[p].invocations = 0
                /\ pc[p] \notin {"attempt", "either", "sleep"}
                /\ Has(loc[p], "sleeps") => loc[p].sleeps = 0
                /\ Ended(p) =>
                     loc[p].result = Left(RetryExhaustedError("unknown", 0, NullError))

\* retry({maxAttempts: -1}) of an operation that would succeed at once has
\* failed without invoking it.
C25_Witness ==
  \E p \in Fibers :
    /\ InAnyRetry(p) /\ Ended(p)
    /\ call[p].effect.retry.maxAttempts = -1
    /\ call[p].effect.plan.succAt = 1
    /\ loc[p].invocations = 0
    /\ loc[p].result.tag = "Left"

\* Date.now() - startTime when the attempt the fiber is in, or was last in,
\* began.
ElapsedAtStart(p) == (loc[p].started \div 1000) - loc[p].startTime

\* C26: the maxDuration budget is looked at only after a failed attempt,
\* before the delay: a loop left for the budget has just seen an attempt
\* fail; an attempt that began when the budget was already used up is the
\* last one, so no delay is slept after it fails; and when it succeeds its
\* value is returned.
C26_BudgetIsCheckedAfterFailureOnly ==
  \A p \in Fibers :
    InRetry(p) /\ Has(call[p].effect.retry, "maxDuration")
    => LET budgetMs == toMillis(decode(call[p].effect.retry.maxDuration))
       IN  /\ Ended(p) /\ EndedByBudget(p) =>
                /\ loc[p].invocations >= 1
                /\ loc[p].lastError = OpError(loc[p].invocations)
           /\ pc[p] = "sleep" => ElapsedAtStart(p) < budgetMs
           /\ (Ended(p) /\ loc[p].invocations >= 1
                 /\ call[p].effect.plan.succAt = loc[p].invocations) =>
                loc[p].result = Right(call[p].effect.value)

\* C27: with maxAttempts >= 1, retry(opts)(timeout(d)(op)) that has been
\* started ends, with the value of an attempt or with RetryExhaustedError,
\* whether or not op ever completes.
C27_RetryOfTimeoutTerminates ==
  \A p \in {"f1"} :
    (pc[p] = "execute" /\ InRetryTimeout(p) /\ call[p].effect.retry.maxAttempts >= 1)
    ~> (/\ Ended(p)
        /\ \/ loc[p].result.tag = "Right"
           \/ loc[p].result.left.tag = "RetryExhaustedError")

\* retry(timeout(Effect.never)) has ended: every one of the MaxTries
\* attempts timed out.
C27_Witness ==
  \E p \in Fibers :
    /\ InRetryTimeout(p) /\ Ended(p)
    /\ call[p].effect.plan = never.plan
    /\ call[p].effect.retry.maxAttempts = MaxTries
    /\ loc[p].invocations = MaxTries
    /\ loc[p].result.left.tag = "RetryExhaustedError"
    /\ loc[p].result.left.lastError.tag = "StepTimeoutError"

\* C28: in step(name, retry(opts)(op)) the run's WorkflowState stays as it
\* was at the call while attempts fail and delays pass; it changes only
\* once an attempt has succeeded, and when the step returns the value the
\* state is the one at the call with the result stored and the name
\* appended once; when the retry is exhausted the step leaves the state as
\* it was at the call and fails with a StepError of this name whose cause is
\* the RetryExhaustedError.
C28_RetriedStepWritesOnlyOnSuccess ==
  [][\A p \in Fibers :
       InAnyRetry(p)
       => LET r == ctx[p].stateRef
              name == call[p].name
          IN  /\ pc[p] \in {"execute", "while", "attempt", "either", "sleep", "exhausted"} =>
                   /\ refs[r] = hist[p].snap
                   /\ refs'[r] = refs[r]
              /\ refs'[r] # refs[r] =>
                   /\ pc[p] \in {"stepResult", "markCompleted"}
                   /\ loc[p].result.tag = "Right"
                   /\ loc[p].invocations >= 1
              /\ (pc[p] = "markCompleted" /\ pc'[p] = "defn") =>
                   /\ refs'[r] =
                        markCompleted(setStepResult(hist[p].snap, name, loc[p].result.right),
                                      name)
                   /\ ret'[p].out = Right(call[p].effect.value)
              /\ (pc[p] = "stepResult" /\ loc[p].result.tag = "Left" /\ pc'[p] = "defn") =>
                   /\ refs'[r] = hist[p].snap
                   /\ ~hasCompleted(refs'[r], name)
                   /\ getStepResult(refs'[r], name) = Undefined
                   /\ ret'[p].out.tag = "Left"
                   /\ ret'[p].out.left.tag = "StepError"
                   /\ ret'[p].out.left.stepName = name
                   /\ ret'[p].out.left.cause = loc[p].result.left
                   /\ ret'[p].out.left.cause.tag = "RetryExhaustedError"
    ]_vars

\* The last of MaxTries attempts of a retried step succeeded after
\* MaxTries - 1 delays: the result is stored and the name is about to be
\* marked completed.
C28_Witness ==
  \E p \in Fibers :
    /\ InAnyRetry(p)
    /\ pc[p] = "markCompleted"
    /\ loc[p].invocations = MaxTries
    /\ loc[p].sleeps = MaxTries - 1
    /\ getStepResult(State(p), call[p].name) = "v1"
    /\ ~hasCompleted(State(p), call[p].name)

\* C29: in the WorkflowState of every run (steps of a run are issued one
\* after the other) every name in completedSteps is a key of stepResults,
\* and a key of stepResults is missing from completedSteps only while the
\* run's step call is between its setStepResult and its markCompleted, and
\* then it is the name of that call.
C29_CompletedNamesAreCached ==
  \A r \in 1..Len(refs) :
    LET s == refs[r]
        between == {p \in Fibers : ctx[p] # NoCtx /\ ctx[p].stateRef = r
                                      /\ pc[p] = "markCompleted"}
    IN  /\ Range(s.completedSteps) \subseteq DOMAIN s.stepResults
        /\ (DOMAIN s.stepResults) \ Range(s.completedSteps)
             \subseteq {call[p].name : p \in between}

\* A run has one step completed and cached, and its next step, of another
\* name, has stored its result and not yet marked the name completed.
C29_Witness ==
  \E p \in Fibers :
    /\ pc[p] = "markCompleted"
    /\ State(p).completedSteps # <<>>
    /\ call[p].name \in DOMAIN State(p).stepResults
    /\ ~hasCompleted(State(p), call[p].name)

\* The steps a fiber's own calls have completed, in the order it completed
\* them, as they stand in the run's completedSteps.
CompletedBy(p) ==
  SelectSeq(State(p).completedSteps,
            LAMBDA n : n \in Range(hist[p].mine.completedSteps))

\* C30: when fibers sharing one run's WorkflowContext call step under
\* distinct names, every result a fiber has stored is in stepResults under
\* its name, every name a fiber has marked is in completedSteps as often as
\* the fiber marked it, and a step that returned its operation's value left
\* its name completed and that value cached; nothing else is in the state.
C30_ConcurrentStepsLoseNoUpdate ==
  /\ \A p \in Fibers :
       ctx[p] # NoCtx
       => LET s == State(p)
              m == hist[p].mine
          IN  /\ \A n \in DOMAIN m.stepResults :
                   /\ n \in DOMAIN s.stepResults
                   /\ s.stepResults[n] = m.stepResults[n]
              /\ CompletedBy(p) = m.completedSteps
              /\ Returned(p, "executed") =>
                   /\ hasCompleted(s, ret[p].name)
                   /\ getStepResult(s, ret[p].name) = ret[p].out.right
  /\ \A r \in 1..Len(refs) :
       LET sharing == {p \in Fibers : ctx[p] # NoCtx /\ ctx[p].stateRef = r}
       IN  /\ DOMAIN refs[r].stepResults =
                UNION {DOMAIN hist[p].mine.stepResults : p \in sharing}
           /\ Range(refs[r].completedSteps) =
                UNION {Range(hist[p].mine.completedSteps) : p \in sharing}

\* Two fibers of one run have each executed a step, each called before the
\* other had stored its result: both names are completed and both results
\* cached.
C30_Witness ==
  /\ ctx["f1"] # NoCtx
  /\ ctx["f2"] = ctx["f1"]
  /\ Returned("f1", "executed")
  /\ Returned("f2", "executed")
  /\ ret["f1"].name # ret["f2"].name
  /\ ret["f1"].name \notin DOMAIN hist["f2"].snap.stepResults
  /\ ret["f2"].name \notin DOMAIN hist["f1"].snap.stepResults
  /\ hasCompleted(State("f1"), ret["f1"].name)
  /\ hasCompleted(State("f1"), ret["f2"].name)
  /\ getStepResult(State("f1"), ret["f1"].name) = "v1"
  /\ getStepResult(State("f1"), ret["f2"].name) = Null

====
